---- MODULE Spec2Model ----
EXTENDS Integers, Naturals, Sequences, FiniteSets, TLC

\* Model of src/ingest.py (DocumentIngestor).
\* Text is a sequence of one-character strings over a small alphabet.

\* ---------------------------------------------------------------- bounds
MaxTextLen == 8
ChunkSize == 6
OverlapWords == 2

Alphabet == {"a", ".", " "}

\* ------------------------------------------------------- string helpers
\* Python str.split(d): pieces between occurrences of d (always >= 1 piece)
RECURSIVE SplitAcc(_, _, _, _)
SplitAcc(s, d, cur, acc) ==
  IF s = <<>> THEN Append(acc, cur)
  ELSE IF Head(s) = d THEN SplitAcc(Tail(s), d, <<>>, Append(acc, cur))
  ELSE SplitAcc(Tail(s), d, Append(cur, Head(s)), acc)
Split(s, d) == SplitAcc(s, d, <<>>, <<>>)

\* Python str.strip() (whitespace is " " in this alphabet)
RECURSIVE LStrip(_)
LStrip(s) == IF s # <<>> /\ Head(s) = " " THEN LStrip(Tail(s)) ELSE s
RECURSIVE RStrip(_)
RStrip(s) == IF s # <<>> /\ s[Len(s)] = " " THEN RStrip(SubSeq(s, 1, Len(s) - 1)) ELSE s
Strip(s) == RStrip(LStrip(s))

\* Python str.split() with no argument: maximal runs of non-whitespace
Words(s) == SelectSeq(Split(s, " "), LAMBDA w : w # <<>>)

\* Python sep.join(parts)
RECURSIVE Join(_, _)
Join(parts, sep) ==
  IF parts = <<>> THEN <<>>
  ELSE IF Len(parts) = 1 THEN Head(parts)
  ELSE Head(parts) \o sep \o Join(Tail(parts), sep)

\* Python list slice l[-n:]
LastN(l, n) == IF Len(l) <= n THEN l ELSE SubSeq(l, Len(l) - n + 1, Len(l))

MapSeq(l, F(_)) == [i \in DOMAIN l |-> F(l[i])]

RECURSIVE Flatten(_)
Flatten(ls) == IF ls = <<>> THEN <<>> ELSE Head(ls) \o Flatten(Tail(ls))

Sum(l) == LET RECURSIVE S(_) S(m) == IF m = <<>> THEN 0 ELSE Head(m) + S(Tail(m)) IN S(l)

Sep == <<".", " ">>
Space == <<" ">>

\* ------------------------------------------------------ create_chunks
\* sentences = [s.strip() for s in text.split('.') if s.strip()]
Sentences(t) ==
  SelectSeq(MapSeq(Split(t, "."), Strip), LAMBDA s : s # <<>>)

MutChunkMeta(m, i) == ("chunk_index" :> i + 1) @@ m

\* {**metadata, 'chunk_index': len(chunks)}
ChunkMeta(m, i) == ("chunk_index" :> i) @@ m

MutOverlapOf(chunk) == Flatten(LastN(Words(chunk), OverlapWords))

\* overlap_words = words[-20:]; ' '.join(overlap_words)
OverlapOf(chunk) == Join(LastN(Words(chunk), OverlapWords), Space)

MutNewBuffer(chunk, sentence) == OverlapOf(chunk) \o Sep

\* current_chunk = ' '.join(overlap_words) + '. ' + sentence
NewBuffer(chunk, sentence) == OverlapOf(chunk) \o Sep \o sentence

MutExceedsChunk(len, slen, chunk) == len + slen >= ChunkSize /\ chunk # <<>>

\* current_length + sentence_length > self.chunk_size and current_chunk
ExceedsChunk(len, slen, chunk) == len + slen > ChunkSize /\ chunk # <<>>

MutFinalNonEmpty(chunk) == TRUE

\* if current_chunk.strip():
FinalNonEmpty(chunk) == Strip(chunk) # <<>>

\* current_chunk += ('. ' if current_chunk else '') + sentence
Extend(chunk, sentence) == IF chunk = <<>> THEN sentence ELSE chunk \o Sep \o sentence

Texts == UNION {[1..n -> Alphabet] : n \in 0..MaxTextLen}
Metas == {("source" :> "f1"), ("source" :> "f2")}

VARIABLES text, meta, sentences, k, cur, curLen, chunks, pc

cvars == <<text, meta, sentences, k, cur, curLen, chunks, pc>>

CInit ==
  /\ text \in Texts
  /\ meta \in Metas
  /\ sentences = <<>>
  /\ k = 1
  /\ cur = <<>>
  /\ curLen = 0
  /\ chunks = <<>>
  /\ pc = "split"

SplitSentences ==
  /\ pc = "split"
  /\ sentences' = Sentences(text)
  /\ pc' = "loop"
  /\ UNCHANGED <<text, meta, k, cur, curLen, chunks>>

\* if current_length + sentence_length > self.chunk_size and current_chunk
CloseChunk ==
  /\ pc = "loop"
  /\ k <= Len(sentences)
  /\ ExceedsChunk(curLen, Len(sentences[k]), cur)
  /\ chunks' = Append(chunks, [content |-> Strip(cur),
                               metadata |-> ChunkMeta(meta, Len(chunks))])
  /\ cur' = NewBuffer(cur, sentences[k])
  /\ curLen' = Len(NewBuffer(cur, sentences[k]))
  /\ k' = k + 1
  /\ UNCHANGED <<text, meta, sentences, pc>>

AppendSentence ==
  /\ pc = "loop"
  /\ k <= Len(sentences)
  /\ ~ExceedsChunk(curLen, Len(sentences[k]), cur)
  /\ cur' = Extend(cur, sentences[k])
  /\ curLen' = Len(Extend(cur, sentences[k]))
  /\ k' = k + 1
  /\ UNCHANGED <<text, meta, sentences, chunks, pc>>

\* if current_chunk.strip(): chunks.append(...); return chunks
FlushFinal ==
  /\ pc = "loop"
  /\ k > Len(sentences)
  /\ chunks' = IF FinalNonEmpty(cur)
                 THEN Append(chunks, [content |-> Strip(cur),
                                      metadata |-> ChunkMeta(meta, Len(chunks))])
                 ELSE chunks
  /\ pc' = "done"
  /\ UNCHANGED <<text, meta, sentences, k, cur, curLen>>

CNext == SplitSentences \/ CloseChunk \/ AppendSentence \/ FlushFinal

\* ------------------------------------------------- chunker properties
Done == pc = "done"
SentenceLens == MapSeq(Sentences(text), Len)
\* the last min(20, w) words of a chunk's content, joined by single spaces
LastWordsOf(c) == Join(LastN(Words(c), OverlapWords), Space)
\* chunk i with its leading overlap portion removed (chunk 1 in full)
NonOverlap(i) ==
  IF i = 1 THEN chunks[1].content
  ELSE SubSeq(chunks[i].content, Len(LastWordsOf(chunks[i-1].content)) + 1, Len(chunks[i].content))
Reconstructed == Flatten([i \in 1..Len(chunks) |-> Sentences(NonOverlap(i))])

\* C1: every emitted chunk has length <= chunk_size, unless it is a single
\* sentence that is itself longer than chunk_size.
C1_ChunkSizeBound ==
  \A i \in 1..Len(chunks) :
     \/ Len(chunks[i].content) <= ChunkSize
     \/ \E j \in 1..Len(sentences) :
           Len(sentences[j]) > ChunkSize /\ chunks[i].content = sentences[j]

\* C2: for 0 < i < N, chunk i begins with the last min(20, w) words of chunk
\* i-1, joined by single spaces.
C2_OverlapPrefix ==
  \A i \in 2..Len(chunks) :
     LET ov == LastWordsOf(chunks[i-1].content)
     IN  Len(ov) <= Len(chunks[i].content) /\ SubSeq(chunks[i].content, 1, Len(ov)) = ov
C2_Witness ==
  Done /\ Len(chunks) >= 2 /\ Len(Words(chunks[1].content)) > OverlapWords

\* C3 (original): every text shorter than chunk_size yields exactly one chunk,
\* with chunk_index 0.
C3_Original ==
  (Done /\ Len(text) < ChunkSize) =>
     (Len(chunks) = 1 /\ chunks[1].metadata["chunk_index"] = 0)
\* C3 (amended): if the text's non-empty trimmed sentences, joined by '. ',
\* fit in chunk_size, the result is one chunk with chunk_index 0 when there is
\* at least one sentence, and no chunk otherwise.
C3_SingleChunk ==
  (Done /\ Len(Join(Sentences(text), Sep)) <= ChunkSize) =>
     IF Sentences(text) = <<>> THEN chunks = <<>>
     ELSE Len(chunks) = 1 /\ chunks[1].metadata["chunk_index"] = 0
C3_Witness ==
  Done /\ Len(Sentences(text)) >= 2 /\ Len(Join(Sentences(text), Sep)) <= ChunkSize
       /\ Len(chunks) = 1

C5_Reconstruct == Done => Reconstructed = Sentences(text)
C5_Witness == Done /\ Len(chunks) >= 2

\* C6: chunk_index values are 0..N-1 in emission order, metadata is the shared
\* metadata plus chunk_index, and no chunk is empty after trimming.
C6_IndexMeta ==
  \A i \in 1..Len(chunks) :
     /\ chunks[i].metadata =
          [x \in DOMAIN meta \cup {"chunk_index"} |->
             IF x = "chunk_index" THEN i - 1 ELSE meta[x]]
     /\ Strip(chunks[i].content) # <<>>
C6_Witness == Done /\ Len(chunks) >= 2

\* ================================================= process_directory
MaxEntries == 2
MaxChunks == 21
BatchSize == 10

\* a directory tree entry: a regular file or a directory, with a name suffix
Kinds == {"file", "dir"}
Exts == {".txt", ".pdf", ".doc"}
\* supported_extensions (restricted to the suffixes of this model)
SupportedExts == {".txt", ".pdf"}
Entries == [kind : Kinds, ext : Exts]
Trees == UNION {[1..n -> Entries] : n \in 0..MaxEntries}
\* iteration order of the supported_extensions set (hash order)
ExtOrders == {<<".txt", ".pdf">>, <<".pdf", ".txt">>}

\* for ext in supported_extensions: files.extend(directory.rglob(f'*{ext}'))
\* rglob matches directories as well as regular files.
Collect(tree, order) ==
  Flatten([j \in 1..Len(order) |-> SelectSeq(tree, LAMBDA e : e.ext = order[j])])

Min(a, b) == IF a <= b THEN a ELSE b

MutNextStart(i) == i + BatchSize - 1

\* for i in range(0, len(chunks), self.batch_size)
NextStart(i) == i + BatchSize

\* batch = chunks[i:i + self.batch_size] (0-based chunk indices)
BatchOf(i, n) == [j \in 1..Min(BatchSize, n - i) |-> i + j - 1]

MutTally(p, f, ok) == <<p + 1, f>>

\* if self.process_file(file_path): processed += 1 else: failed += 1
Tally(p, f, ok) == IF ok THEN <<p + 1, f>> ELSE <<p, f + 1>>

VARIABLES tree, files, dpc, fi, fpc, nch, bstart, processed, failed,
          results, log, stored

dvars == <<tree, files, dpc, fi, fpc, nch, bstart, processed, failed,
           results, log, stored>>

DInit ==
  /\ tree \in Trees
  /\ files = <<>>
  /\ dpc = "init"
  /\ fi = 1
  /\ fpc = "start"
  /\ nch = 0
  /\ bstart = 0
  /\ processed = 0
  /\ failed = 0
  /\ results = <<>>
  /\ log = <<>>
  /\ stored = <<>>

\* process_file returns; process_directory counts the result, next file
FinishFile(res) ==
  /\ results' = Append(results, [res |-> res, n |-> nch'])
  /\ processed' = Tally(processed, failed, res = "ok")[1]
  /\ failed' = Tally(processed, failed, res = "ok")[2]
  /\ fi' = fi + 1
  /\ fpc' = "start"
  /\ bstart' = 0

\* if not directory.exists(): return
DirMissing ==
  /\ dpc = "init"
  /\ dpc' = "done"
  /\ UNCHANGED <<tree, files, fi, fpc, nch, bstart, processed, failed,
                 results, log, stored>>

CollectFiles ==
  /\ dpc = "init"
  /\ \E order \in ExtOrders : files' = Collect(tree, order)
  /\ dpc' = "run"
  /\ UNCHANGED <<tree, fi, fpc, nch, bstart, processed, failed,
                 results, log, stored>>

\* extract_text returns '' (directory, unreadable file, blank text):
\* if not content.strip(): return False
FileEmpty ==
  /\ dpc = "run" /\ fi <= Len(files) /\ fpc = "start"
  /\ nch' = 0
  /\ FinishFile("empty")
  /\ UNCHANGED <<tree, files, dpc, log, stored>>

\* text is non-blank but create_chunks returns []: return False
NoChunks ==
  /\ dpc = "run" /\ fi <= Len(files) /\ fpc = "start"
  /\ files[fi].kind = "file"
  /\ nch' = 0
  /\ FinishFile("nochunks")
  /\ UNCHANGED <<tree, files, dpc, log, stored>>

\* text is non-blank and create_chunks returns n >= 1 chunks
Chunked ==
  /\ dpc = "run" /\ fi <= Len(files) /\ fpc = "start"
  /\ files[fi].kind = "file"
  /\ \E n \in 1..MaxChunks : nch' = n
  /\ bstart' = 0
  /\ fpc' = "embed"
  /\ UNCHANGED <<tree, files, dpc, fi, processed, failed, results, log, stored>>

LogEntry(kind, ok) ==
  [kind |-> kind, file |-> fi, start |-> bstart,
   size |-> Len(BatchOf(bstart, nch)), ok |-> ok]

\* embeddings = self.generate_embeddings(texts)
EmbedBatch ==
  /\ dpc = "run" /\ fpc = "embed"
  /\ log' = Append(log, LogEntry("embed", TRUE))
  /\ fpc' = "store"
  /\ UNCHANGED <<tree, files, dpc, fi, nch, bstart, processed, failed, results, stored>>

\* generate_embeddings raises: caught in process_file, return False
EmbedError ==
  /\ dpc = "run" /\ fpc = "embed"
  /\ log' = Append(log, LogEntry("embed", FALSE))
  /\ nch' = nch
  /\ FinishFile("embed_error")
  /\ UNCHANGED <<tree, files, dpc, stored>>

\* self.store_chunks(batch, embeddings); time.sleep(0.1); next batch or
\* return True after the last batch
StoreBatch ==
  /\ dpc = "run" /\ fpc = "store"
  /\ log' = Append(log, LogEntry("store", TRUE))
  /\ stored' = stored \o [j \in 1..Len(BatchOf(bstart, nch)) |->
                             [file |-> fi, idx |-> BatchOf(bstart, nch)[j]]]
  /\ IF NextStart(bstart) < nch
       THEN /\ bstart' = NextStart(bstart)
            /\ fpc' = "embed"
            /\ UNCHANGED <<fi, nch, processed, failed, results>>
       ELSE /\ nch' = nch
            /\ FinishFile("ok")
  /\ UNCHANGED <<tree, files, dpc>>

\* store_chunks raises: caught in process_file, return False
StoreError ==
  /\ dpc = "run" /\ fpc = "store"
  /\ log' = Append(log, LogEntry("store", FALSE))
  /\ nch' = nch
  /\ FinishFile("store_error")
  /\ UNCHANGED <<tree, files, dpc, stored>>

DirFinished ==
  /\ dpc = "run" /\ fi > Len(files)
  /\ dpc' = "done"
  /\ UNCHANGED <<tree, files, fi, fpc, nch, bstart, processed, failed,
                 results, log, stored>>

DNext == DirMissing \/ CollectFiles \/ FileEmpty \/ NoChunks \/ Chunked
         \/ EmbedBatch \/ EmbedError \/ StoreBatch \/ StoreError \/ DirFinished

\* ======================================================= store_chunks
MaxBatch == 2

Contents == {"x", "y"}
Embeddings == {"e1", "e2"}
Timestamps == {"t1", "t2"}
\* chunks as built by create_chunks: metadata carries chunk_index
BatchChunks == {[content |-> c, metadata |-> ("chunk_index" :> i) @@ ("source" :> "f1")] :
                  c \in Contents, i \in 0..2}
SeqsUpTo(S, m) == UNION {[1..n -> S] : n \in 0..m}

MutStripIndex(m) == m

\* {k: v for k, v in chunk_meta.items() if k != 'chunk_index'}
StripIndex(m) == [x \in DOMAIN m \ {"chunk_index"} |-> m[x]]

\* data_to_insert built over zip(chunks, embeddings); ts[i] is the
\* time.strftime value read for record i
Records(cs, es, ts) ==
  [i \in 1..Min(Len(cs), Len(es)) |->
     [content |-> cs[i].content,
      metadata |-> StripIndex(cs[i].metadata),
      chunk_index |-> cs[i].metadata["chunk_index"],
      embedding |-> es[i],
      created_at |-> ts[i]]]

VARIABLES batch, embs, inserts, resp, spc

svars == <<batch, embs, inserts, resp, spc>>

\* the store's response to the insert: "none" before the call
Responses == {"ok", "error"}

SInit ==
  /\ batch \in SeqsUpTo(BatchChunks, MaxBatch)
  /\ embs \in SeqsUpTo(Embeddings, MaxBatch)
  /\ inserts = <<>>
  /\ resp = "none"
  /\ spc = "call"

\* try: ... return result / except Exception: logger.error(...); raise
StoreOutcome(r) == IF r = "error" THEN "raised" ELSE "returned"

\* build data_to_insert, then
\* supabase.table('document_chunks').insert(data_to_insert).execute(),
\* whose response (success or exception) is chosen by the store
StoreChunks ==
  /\ spc = "call"
  /\ \E ts \in [1..Min(Len(batch), Len(embs)) -> Timestamps] :
        inserts' = Append(inserts, Records(batch, embs, ts))
  /\ \E r \in Responses :
        /\ resp' = r
        /\ spc' = StoreOutcome(r)
  /\ UNCHANGED <<batch, embs>>

SNext == StoreChunks

\* C10: for equal-length batches, one insert with one record per pair in
\* order, metadata without chunk_index, chunk_index promoted to the top level;
\* a store error reaches the caller.
C10_Records ==
  spc # "call" =>
    /\ Len(inserts) = 1
    /\ (resp = "error" <=> spc = "raised")
    /\ Len(batch) = Len(embs) =>
         /\ Len(inserts[1]) = Len(batch)
         /\ \A i \in 1..Len(batch) :
              /\ inserts[1][i].content = batch[i].content
              /\ inserts[1][i].embedding = embs[i]
              /\ DOMAIN inserts[1][i].metadata = DOMAIN batch[i].metadata \ {"chunk_index"}
              /\ \A x \in DOMAIN inserts[1][i].metadata :
                    inserts[1][i].metadata[x] = batch[i].metadata[x]
              /\ inserts[1][i].chunk_index = batch[i].metadata["chunk_index"]
C10_Witness ==
  spc = "returned" /\ Len(batch) = 2 /\ Len(embs) = 2
    /\ batch[1].metadata["chunk_index"] # 0

\* --------------------------------------------- process_directory properties
CountRes(P(_)) == Cardinality({i \in 1..Len(results) : P(results[i].res)})
FileLog(f) == SelectSeq(log, LAMBDA e : e.file = f)
FileStored(f) == SelectSeq(stored, LAMBDA r : r.file = f)

\* C7: each collected file is counted exactly once, in order: a failing file
\* increments failed and never processed, every later file is still
\* processed, and at the end processed + failed = number of collected files.
C7_CountedOnce ==
  /\ processed = CountRes(LAMBDA r : r = "ok")
  /\ failed = CountRes(LAMBDA r : r # "ok")
  /\ Len(results) = fi - 1
  /\ dpc = "done" => processed + failed = Len(files)
C7_Witness ==
  dpc = "done" /\ Len(files) >= 2 /\ results[1].res # "ok" /\ results[2].res = "ok"

\* C8: batches of at most batch_size consecutive chunks run one after
\* another, each as embed then one store insert; a failing call ends the
\* file (no later batch, no retry) with earlier batches left stored and the
\* file counted failed; on success every chunk is stored once, in order.
C8_Batches ==
  \A f \in 1..Len(results) :
     LET L == FileLog(f)
         S == FileStored(f)
         n == results[f].n
     IN  /\ \A j \in 1..Len(L) :
              /\ L[j].kind = IF j % 2 = 1 THEN "embed" ELSE "store"
              /\ L[j].start = ((j - 1) \div 2) * BatchSize
              /\ L[j].size = Min(BatchSize, n - L[j].start)
              /\ L[j].size >= 1
              /\ (j < Len(L) => L[j].ok)
         /\ \A j \in 1..Len(S) : S[j].idx = j - 1
         /\ (L # <<>> /\ ~L[Len(L)].ok) =>
               /\ Len(S) = L[Len(L)].start
               /\ results[f].res # "ok"
         /\ results[f].res = "ok" => Len(S) = n
C8_Witness ==
  \E f \in 1..Len(results) :
     Len(FileLog(f)) >= 3 /\ ~FileLog(f)[Len(FileLog(f))].ok

\* C9: with no regular file with a supported extension in the tree, the run
\* ends with 0 processed, 0 failed, and no embedding or store call.
C9_NoSupportedFiles ==
  (dpc = "done" /\ ~\E i \in 1..Len(tree) : tree[i].kind = "file" /\ tree[i].ext \in SupportedExts)
     => (processed = 0 /\ failed = 0 /\ log = <<>>)

\* ------------------------------------------------------ specifications
vars == <<cvars, dvars, svars>>

\* create_chunks on one text; the directory state stays at its initial value
SIdle == batch = <<>> /\ embs = <<>> /\ inserts = <<>> /\ resp = "none" /\ spc = "call"
ChunkInit == CInit /\ DInit /\ tree = <<>> /\ SIdle
ChunkNext == CNext /\ UNCHANGED <<dvars, svars>>
ChunkSpec == ChunkInit /\ [][ChunkNext]_vars

\* process_directory on one tree; the chunker state stays at its initial value
CIdle == text = <<>> /\ meta = ("source" :> "f1") /\ sentences = <<>> /\ k = 1
         /\ cur = <<>> /\ curLen = 0 /\ chunks = <<>> /\ pc = "split"
DirInit == DInit /\ CIdle /\ SIdle
DirNext == DNext /\ UNCHANGED <<cvars, svars>>
DirSpec == DirInit /\ [][DirNext]_vars

\* store_chunks on one batch
StoreInit == SInit /\ CIdle /\ DInit /\ tree = <<>>
StoreNext == SNext /\ UNCHANGED <<cvars, dvars>>
StoreSpec == StoreInit /\ [][StoreNext]_vars

====
